---- MODULE Spec2Model ----
(***************************************************************************)
(* Model of src/main.py: the ExpenseTracker service.                       *)
(*                                                                         *)
(* The store is the table `expenses` of the SQLite file expenses.db, which *)
(* outlives the process.  init_db() runs when the module is loaded; the    *)
(* tools add_expense, list_expenses and summarize and the resource         *)
(* categories are served afterwards.                                       *)
(*                                                                         *)
(* Text is modelled as sequences: a date is a sequence of character codes  *)
(* (compared as SQLite's BINARY collation compares TEXT), a document       *)
(* returned by the category resource is a sequence of tokens.              *)
(***************************************************************************)
EXTENDS Integers, Sequences, FiniteSets

VARIABLES
    proc,         \* "down" | "serving" | "fatal": the life of the current process
    initErr,      \* the step at which the current process's init_db() failed, or "none"
    served,       \* TRUE once the current process has answered a call
    tableExists,  \* expenses.db holds the table `expenses`
    expenses,     \* the rows of the table
    seq,          \* sqlite_sequence entry of `expenses` (AUTOINCREMENT high-water mark)
    result        \* the latest call answered, with what it returned

vars == <<proc, initErr, served, tableExists, expenses, seq, result>>

----------------------------------------------------------------------------
(* Bounds *)

MaxRows == 3       \* rows an earlier process may have left in expenses.db
MaxStartups == 3   \* successful startups (each one consumes an identifier)

(* Input domains *)

Dates == {<<1>>, <<1, 0>>, <<2>>}     \* text such as "1" < "10" < "2"
Amounts == {1, 2}
CategoryNames == {"Food", "test", ""}
Optionals == {"", "x"}                \* subcategory / note; "" is the default
NoCategory == <<>>                    \* summarize(category=None)
CategoryArgs == {NoCategory} \cup {<<c>> : c \in CategoryNames}

----------------------------------------------------------------------------
(* Helpers *)

RECURSIVE SetMax(_)
SetMax(S) ==
    IF S = {} THEN 0
    ELSE LET x == CHOOSE y \in S : TRUE
             m == SetMax(S \ {x})
         IN IF x > m THEN x ELSE m

MaxRowId(tbl) == SetMax({r.id : r \in tbl})

\* memcmp order on TEXT: the first differing character decides, a proper
\* prefix sorts first.
RECURSIVE LexLeq(_, _)
LexLeq(a, b) ==
    IF a = <<>> THEN TRUE
    ELSE IF b = <<>> THEN FALSE
    ELSE IF Head(a) < Head(b) THEN TRUE
    ELSE IF Head(a) > Head(b) THEN FALSE
    ELSE LexLeq(Tail(a), Tail(b))

\* WHERE date BETWEEN ? AND ?
Between(d, lo, hi) == LexLeq(lo, d) /\ LexLeq(d, hi)

----------------------------------------------------------------------------
(* Values returned to the dispatcher.  Every return value is written as one  *)
(* record; `shape` tells what Python value it stands for:                    *)
(*   "error"  {"status": "error", "message": message}                        *)
(*   "added"  {"status": "success", "id": id, "message": message}            *)
(*   "rows"   a list of row dictionaries (rows)                              *)
(*   "text"   a str (body)                                                   *)
(*   "fault"  no value: an exception left the function                       *)

Value(shape, status, id, message, rows, body) ==
    [shape |-> shape, status |-> status, id |-> id, message |-> message,
     rows |-> rows, body |-> body]

NoValue == Value("none", "", 0, "", <<>>, <<>>)
NoCall == [op |-> "none", args |-> <<>>, storage |-> "ok", ret |-> NoValue]

\* A handler that lets the exception through (as init_db's does): no value
\* is returned.
Raised(e) == Value("fault", "", 0, e, <<>>, <<>>)

\* except Exception as e: return {"status": "error", "message": str(e)}
Caught(e) == Value("error", "error", 0, e, <<>>, <<>>)

\* str(e) of the exceptions the tools meet
OperationalError == "unable to open database file"
TypeError ==
    "'sqlite3.Connection' object does not support the asynchronous context manager protocol"

\* `async with sqlite3.connect(DB_PATH) as c:` -- connect() raises
\* sqlite3.OperationalError when the store cannot be opened; otherwise it
\* returns a sqlite3.Connection, which has no __aenter__/__aexit__, so that
\* entering the block raises TypeError (AttributeError before Python 3.11,
\* caught alike).  Either way the body of the block
\* (the INSERT or SELECT, commit, and the success return) is never reached.
AsyncWithConnect(storage) ==
    IF storage = "failed" THEN OperationalError ELSE TypeError

----------------------------------------------------------------------------
(* init_db(), run when the module is loaded (line 44) *)

InitSteps == {"none", "open", "create", "insert", "delete"}

Sentinel(id) ==
    [id |-> id, date |-> <<2, 0, 0, 0>>, amount |-> 0, category |-> "test",
     subcategory |-> "", note |-> ""]

\* INTEGER PRIMARY KEY AUTOINCREMENT: one more than the largest rowid the
\* table has ever held.
NextId(tbl, sq) == (IF sq > MaxRowId(tbl) THEN sq ELSE MaxRowId(tbl)) + 1

\* DELETE FROM expenses WHERE category = 'test'
DeleteTest(tbl) == {r \in tbl : r.category # "test"}

\* An init_db() that reports the exception and returns: the module loads.
InitOutcomeSwallowed(failAt) == "serving"

\* except Exception as e: print(...); raise -- the import of the module
\* fails, so that no tool or resource below line 44 is ever registered and
\* mcp.run() is not reached.
InitOutcome(failAt) == IF failAt = "none" THEN "serving" ELSE "fatal"

\* A process is started (for the first time or again).  failAt is the
\* statement of init_db() that raises.  CREATE TABLE runs in autocommit; the
\* INSERT opens a transaction that the `with` block commits on success and
\* rolls back on an exception.
Startup(failAt) ==
    /\ failAt = "none" => NextId(expenses, seq) <= MaxRows + MaxStartups
    /\ proc' = InitOutcome(failAt)
    /\ initErr' = failAt
    /\ served' = FALSE
    /\ tableExists' = (tableExists \/ failAt \in {"none", "insert", "delete"})
    /\ IF failAt = "none"
       THEN /\ expenses' = DeleteTest(expenses \cup {Sentinel(NextId(expenses, seq))})
            /\ seq' = NextId(expenses, seq)
       ELSE UNCHANGED <<expenses, seq>>
    /\ UNCHANGED result

----------------------------------------------------------------------------
(* The tools *)

AddArgs ==
    [date : Dates, amount : Amounts, category : CategoryNames,
     subcategory : Optionals, note : Optionals]
RangeArgs == [start_date : Dates, end_date : Dates]
SummarizeArgs == [start_date : Dates, end_date : Dates, category : CategoryArgs]

Answer(op, args, storage, ret) ==
    [op |-> op, args |-> args, storage |-> storage, ret |-> ret]

add_expense(args, storage) == Caught(AsyncWithConnect(storage))

list_expenses(args, storage) == Caught(AsyncWithConnect(storage))

summarize(args, storage) == Caught(AsyncWithConnect(storage))

AddExpense(args, storage) ==
    /\ proc = "serving"
    /\ result' = Answer("add_expense", args, storage, add_expense(args, storage))
    /\ served' = TRUE
    /\ UNCHANGED <<proc, initErr, tableExists, expenses, seq>>

ListExpenses(args, storage) ==
    /\ proc = "serving"
    /\ result' = Answer("list_expenses", args, storage, list_expenses(args, storage))
    /\ served' = TRUE
    /\ UNCHANGED <<proc, initErr, tableExists, expenses, seq>>

Summarize(args, storage) ==
    /\ proc = "serving"
    /\ result' = Answer("summarize", args, storage, summarize(args, storage))
    /\ served' = TRUE
    /\ UNCHANGED <<proc, initErr, tableExists, expenses, seq>>

----------------------------------------------------------------------------
(* The category resource *)

DQ == "\""
SQ == "'"

DefaultCategories ==
    <<"Food & Dining", "Transportation", "Shopping", "Entertainment",
      "Bills & Utilities", "Healthcare", "Travel", "Education", "Business",
      "Other">>

\* json.dumps of a str without characters that need escaping
JsonString(s) == <<DQ, s, DQ>>

RECURSIVE JsonItems(_)
JsonItems(xs) ==
    IF xs = <<>> THEN <<>>
    ELSE IF Len(xs) = 1 THEN JsonString(xs[1])
    ELSE JsonString(xs[1]) \o <<",">> \o JsonItems(Tail(xs))

\* json.dumps({"categories": [...]}, indent=2), white space left out
DumpsDefault ==
    <<"{">> \o JsonString("categories") \o <<":", "[">>
        \o JsonItems(DefaultCategories) \o <<"]", "}">>

\* Where the program is installed: CATEGORIES_PATH, as characters.
Paths == {<<"/srv/app/categories.json">>,
          <<"/srv/o", SQ, "brien/categories.json">>}

\* repr() of a str: quoted with ' unless it holds a ' and no ".
Repr(s) ==
    IF (\E i \in DOMAIN s : s[i] = SQ) /\ ~(\E i \in DOMAIN s : s[i] = DQ)
    THEN <<DQ>> \o s \o <<DQ>>
    ELSE <<SQ>> \o s \o <<SQ>>

\* str(PermissionError(13, "Permission denied", path))
PermissionError(path) == <<"[Errno 13] Permission denied: ">> \o Repr(path)

\* What is at CATEGORIES_PATH when the resource is read:
\*   absent   nothing
\*   hidden   a file that stat() cannot reach (os.path.exists swallows OSError)
\*   denied   a file that stat() finds and open() refuses
\*   regular  a readable file with these characters
Contents == {<<>>, <<"{}">>, <<"{", "CR", "LF", "}">>, <<"{", "CR", "}">>}
FileStates ==
    [kind : {"absent", "hidden", "denied"}, content : {<<>>}]
        \cup [kind : {"regular"}, content : Contents]

\* os.path.exists(CATEGORIES_PATH)
Exists(fs) == fs.kind \in {"denied", "regular"}

\* open(..., "r", encoding="utf-8").read(): universal newlines turn "\r\n"
\* and a lone "\r" into "\n".
RECURSIVE TextRead(_)
TextRead(bytes) ==
    IF bytes = <<>> THEN <<>>
    ELSE IF Head(bytes) = "CR"
         THEN IF Len(bytes) >= 2 /\ bytes[2] = "LF"
              THEN <<"LF">> \o TextRead(Tail(Tail(bytes)))
              ELSE <<"LF">> \o TextRead(Tail(bytes))
         ELSE <<Head(bytes)>> \o TextRead(Tail(bytes))

\* except Exception as e: return f'{{"error": "{str(e)}"}}'
ErrorDocument(msg) ==
    <<"{", DQ, "error", DQ, ":", DQ>> \o msg \o <<DQ, "}">>

Text(body) == Value("text", "", 0, "", <<>>, body)

categories(fs, path) ==
    IF Exists(fs)
    THEN IF fs.kind = "denied"
         THEN Text(ErrorDocument(PermissionError(path)))
         ELSE Text(TextRead(fs.content))
    ELSE Text(DumpsDefault)

Categories(fs, path) ==
    /\ proc = "serving"
    /\ result' = Answer("categories", [file |-> fs, path |-> path], "ok",
                        categories(fs, path))
    /\ served' = TRUE
    /\ UNCHANGED <<proc, initErr, tableExists, expenses, seq>>

----------------------------------------------------------------------------
(* The system *)

\* Rows left in expenses.db by earlier processes.
PriorRow(i) ==
    [id |-> i,
     date |-> IF i % 2 = 1 THEN <<1, 0>> ELSE <<2>>,
     amount |-> 1 + (i % 2),
     category |-> IF i % 3 = 1 THEN "Food" ELSE IF i % 3 = 2 THEN "test" ELSE "",
     subcategory |-> "",
     note |-> ""]

Init ==
    /\ proc = "down"
    /\ initErr = "none"
    /\ served = FALSE
    /\ expenses \in SUBSET {PriorRow(i) : i \in 1..MaxRows}
    /\ seq \in MaxRowId(expenses)..MaxRows
    /\ tableExists \in {seq > 0, TRUE}
    /\ result = NoCall

Storage == {"ok", "failed"}

Next ==
    \/ \E failAt \in InitSteps : Startup(failAt)
    \/ \E args \in AddArgs, storage \in Storage : AddExpense(args, storage)
    \/ \E args \in RangeArgs, storage \in Storage : ListExpenses(args, storage)
    \/ \E args \in SummarizeArgs, storage \in Storage : Summarize(args, storage)
    \/ \E fs \in FileStates, path \in Paths : Categories(fs, path)

Spec == Init /\ [][Next]_vars

----------------------------------------------------------------------------
(* Properties *)

ToolNames == {"add_expense", "list_expenses", "summarize"}

AddStep == \E args \in AddArgs : AddExpense(args, "ok")
ListStep == \E args \in RangeArgs : ListExpenses(args, "ok")
SummarizeStep == \E args \in SummarizeArgs : Summarize(args, "ok")

\* The rows a return value carries (none unless it is a list of rows).
Rows(v) == IF v.shape = "rows" THEN v.rows ELSE <<>>

IsErrorObject(v) ==
    v.shape = "error" /\ v.status = "error" /\ v.message \in STRING

IsSuccessPayload(op, v) ==
    IF op = "add_expense" THEN v.shape = "added" /\ v.status = "success"
    ELSE v.shape = "rows"

RECURSIVE SumAmounts(_)
SumAmounts(S) ==
    IF S = {} THEN 0
    ELSE LET r == CHOOSE x \in S : TRUE IN r.amount + SumAmounts(S \ {r})

RECURSIVE SumTotals(_)
SumTotals(rows) ==
    IF rows = <<>> THEN 0 ELSE Head(rows).total_amount + SumTotals(Tail(rows))

InRange(tbl, a) == {r \in tbl : Between(r.date, a.start_date, a.end_date)}

\* C1 (round trip): a list_expenses call that directly follows an
\* add_expense call, both on a usable store, over a range that covers the
\* added date, returns exactly one record with the identifier add_expense
\* returned, and its date, amount, category, subcategory and note are the
\* arguments of the add_expense call.
RoundTrip ==
    [][(/\ result.op = "add_expense"
        /\ result.storage = "ok"
        /\ ListStep
        /\ Between(result.args.date, result'.args.start_date,
                   result'.args.end_date))
       => /\ result.ret.shape = "added"
          /\ Cardinality({i \in DOMAIN Rows(result'.ret) :
                Rows(result'.ret)[i].id = result.ret.id}) = 1
          /\ \E i \in DOMAIN Rows(result'.ret) :
                Rows(result'.ret)[i] =
                    [id |-> result.ret.id,
                     date |-> result.args.date,
                     amount |-> result.args.amount,
                     category |-> result.args.category,
                     subcategory |-> result.args.subcategory,
                     note |-> result.args.note]]_vars

\* C2 (record permanence): every row of the expenses table is still in the
\* table, with the same fields, after any step of the system (a tool call, a
\* resource read, or a startup with its self-check), whatever its category.
RecordPermanence == [][\A r \in expenses : r \in expenses']_vars

ErrorContainment ==
    result.op \in ToolNames =>
        /\ IsErrorObject(result.ret) \/ IsSuccessPayload(result.op, result.ret)
        /\ result.storage = "failed" => IsErrorObject(result.ret)

\* A tool call during which the store failed has returned the error object.
ErrorContainmentWitness ==
    /\ result.op = "summarize"
    /\ result.storage = "failed"
    /\ IsErrorObject(result.ret)
    /\ result.ret.message = OperationalError

\* C5 (range filter): list_expenses(start_date, end_date) on a usable store
\* returns a stored record if and only if start_date <= record.date <=
\* end_date in lexicographic order, both ends included.
RangeFilter ==
    [][ListStep =>
        \A r \in expenses :
            (\E i \in DOMAIN Rows(result'.ret) : Rows(result'.ret)[i] = r)
                <=> Between(r.date, result'.args.start_date,
                            result'.args.end_date)]_vars

\* C6 (aggregate correctness): summarize(start_date, end_date) on a usable
\* store returns one row per category present in the range, with total_amount
\* the sum and count the number of the in-range records of that category, and
\* the returned totals add up to the sum of all in-range amounts.
AggregateCorrectness ==
    [][(SummarizeStep /\ result'.args.category = NoCategory) =>
        LET rows == Rows(result'.ret)
            inr == InRange(expenses, result'.args)
        IN /\ \A c \in {r.category : r \in inr} :
                 /\ Cardinality({i \in DOMAIN rows : rows[i].category = c}) = 1
                 /\ \E i \in DOMAIN rows :
                      /\ rows[i].category = c
                      /\ rows[i].total_amount =
                            SumAmounts({r \in inr : r.category = c})
                      /\ rows[i].count =
                            Cardinality({r \in inr : r.category = c})
           /\ \A i \in DOMAIN rows : rows[i].category \in {r.category : r \in inr}
           /\ SumTotals(rows) = SumAmounts(inr)]_vars

\* C7 (category filter): summarize with a category argument, on a usable
\* store, returns exactly one row when some in-range record has that category
\* and none otherwise, and a returned row is for that category.
CategoryFilter ==
    [][(SummarizeStep /\ result'.args.category # NoCategory) =>
        LET rows == Rows(result'.ret)
            c == result'.args.category[1]
            hit == \E r \in InRange(expenses, result'.args) : r.category = c
        IN /\ Len(rows) = IF hit THEN 1 ELSE 0
           /\ \A i \in DOMAIN rows : rows[i].category = c]_vars

\* C8 (list ordering): list_expenses on a usable store returns a sequence of
\* records sorted by date descending, records of equal date by identifier
\* descending.
ListOrdering ==
    [][ListStep =>
        /\ result'.ret.shape = "rows"
        /\ \A i, j \in DOMAIN Rows(result'.ret) :
             i < j =>
               LET a == Rows(result'.ret)[i]
                   b == Rows(result'.ret)[j]
               IN \/ (LexLeq(b.date, a.date) /\ a.date # b.date)
                  \/ (a.date = b.date /\ a.id > b.id)]_vars

\* C9 (fatal initialization): when init_db() of the current process failed at
\* any step (opening the store, creating the table, the sentinel insert or
\* delete), the process is in the fatal state and has served no add_expense,
\* list_expenses, summarize or category read.
FatalInitialization ==
    initErr # "none" => proc = "fatal" /\ ~served

\* A process that was started after an earlier one had served calls, and
\* whose self-check failed.
FatalInitializationWitness ==
    /\ initErr = "delete"
    /\ proc = "fatal"
    /\ result.op \in ToolNames

\* The string tokens of a document: what stands between a pair of quotes.
RECURSIVE JsonStrings(_)
JsonStrings(body) ==
    IF Len(body) < 3 THEN <<>>
    ELSE IF body[1] = DQ /\ body[3] = DQ
         THEN <<body[2]>> \o JsonStrings(SubSeq(body, 4, Len(body)))
         ELSE JsonStrings(Tail(body))

\* {"error": "<message>"}: the message string ends at the first quote, which
\* must be the one before the closing brace.
IsErrorJson(body) ==
    /\ Len(body) >= 8
    /\ SubSeq(body, 1, 6) = <<"{", DQ, "error", DQ, ":", DQ>>
    /\ SubSeq(body, Len(body) - 1, Len(body)) = <<DQ, "}">>
    /\ \A i \in 7..(Len(body) - 2) : body[i] \notin {DQ, "\\"}

\* C10 (category resource selection): a read of the category resource returns
\* the sidecar file's contents verbatim when the file exists and can be read,
\* the JSON object {"categories": [the ten defaults in order]} when there is
\* no file, and a JSON object with the single field error when checking for
\* or reading the file fails.
CategoryResourceSelection ==
    result.op = "categories" =>
        LET fs == result.args.file
            body == result.ret.body
        IN /\ result.ret.shape = "text"
           /\ fs.kind = "regular" => body = fs.content
           /\ fs.kind = "absent" =>
                /\ Head(body) = "{" /\ body[Len(body)] = "}"
                /\ JsonStrings(body) = <<"categories">> \o DefaultCategories
           /\ fs.kind \in {"hidden", "denied"} => IsErrorJson(body)

====
